---- MODULE Spec2Model ----
(***************************************************************************)
(* Model of the Reddit RSS monitor: the time-window filter (dateUtils.js), *)
(* the seen-post tracker (postTracker.js), the annotation step             *)
(* (openaiService.js), the notifier (emailService.js) and the polling      *)
(* cycle and its scheduling (index.js).                                    *)
(*                                                                         *)
(* Time is the wall clock in milliseconds, counted from the minute the     *)
(* process starts in; it advances one minute at a time.                    *)
(***************************************************************************)
EXTENDS Integers, Sequences, FiniteSets, TLC

(* ------------------------------ bounds -------------------------------- *)
\* cycles started in one process lifetime
MaxCycles == 3
\* last minute the clock reaches
MaxNowMin == 62
\* minutes a cycle may stay in flight (its calls are bounded by timeouts)
MaxCycleMin == 1
\* last minute at which the feeds still publish a post
MaxPublishMin == 0

(* --------------------------- configuration ---------------------------- *)
\* config.monitoring.subreddits
Subreddits == <<"s1", "s2">>
\* values of CHECK_INTERVAL_MINUTES the model runs under
Intervals == {1, 60}
\* values of POST_AGE_MINUTES the model runs under
Windows == {1, 2}
\* identifiers the feeds can publish, and the feed each one belongs to
PostIds == {"a1", "a2"}
SubOf(id) == IF id = "a1" THEN "s1" ELSE "s2"

MinuteMs == 60 * 1000
MAX_AGE_MS == 60 * 60 * 1000

VARIABLES
  now,          \* Date.now()
  interval,     \* config.monitoring.checkIntervalMinutes
  window,       \* config.monitoring.postAgeMinutes
  enabled,      \* openaiService.enabled
  feed,         \* what each subreddit's RSS feed currently lists
  seenPosts,    \* postTracker.seenPosts : id -> time marked
  cycles,       \* the invocations of monitorFeeds, in start order
  last,         \* what the invocation that returned last had found and done
  sent,         \* the emails MailerSend accepted, in order
  started,      \* start() has launched the initial check
  scheduled,    \* cron.schedule has been called
  lastFire,     \* minute of the last cron firing (or of scheduling)
  exited,       \* the process has terminated
  fNow, fPub, fWin, fResult,  \* inputs and result of isWithinTimeWindow
  tracker,      \* a PostTracker driven call by call, and its last call
  timer,        \* the cron task on its own: the minutes at which it fired
  startup,      \* process.env, and how far loading env.js and start() got
  logger        \* a Logger on its own: its level, the calls made, the lines printed

vars == <<now, interval, window, enabled, feed, seenPosts, cycles, last, sent,
          started, scheduled, lastFire, exited, fNow, fPub, fWin, fResult, tracker,
          timer, startup, logger>>
mainVars == <<now, interval, window, enabled, feed, seenPosts, cycles, last,
              sent, started, scheduled, lastFire, exited>>
freshVars == <<fNow, fPub, fWin, fResult>>

(* ------------------------------ helpers ------------------------------- *)
Range(s) == {s[i] : i \in 1..Len(s)}
Ids(s) == {s[i].id : i \in 1..Len(s)}
RECURSIVE Concat(_)
Concat(ss) == IF Len(ss) = 0 THEN <<>> ELSE Head(ss) \o Concat(Tail(ss))

(* --------------------------- dateUtils.js ----------------------------- *)
\* new Date(postDate).getTime(): the milliseconds of a parseable date, NaN
\* for anything else
DateGetTime(d) ==
  IF d.kind = "date" THEN [nan |-> FALSE, v |-> d.ms] ELSE [nan |-> TRUE, v |-> 0]

isWithinTimeWindowLt(postDate, minutes, nowMs) ==
  LET postTime == DateGetTime(postDate)
      timeWindowMs == minutes * 60 * 1000
  IN  IF postTime.nan THEN FALSE
      ELSE LET age == nowMs - postTime.v IN age >= 0 /\ age < timeWindowMs

\* every comparison with NaN is false
isWithinTimeWindow(postDate, minutes, nowMs) ==
  LET postTime == DateGetTime(postDate)
      timeWindowMs == minutes * 60 * 1000
  IN  IF postTime.nan THEN FALSE
      ELSE LET age == nowMs - postTime.v IN age >= 0 /\ age <= timeWindowMs

(* -------------------------- postTracker.js ---------------------------- *)
isNewPostNoGuard(post, timeWindowMinutes, seen, nowMs) ==
  LET isRecent == isWithinTimeWindow(post.pubDate, timeWindowMinutes, nowMs)
      notSeen == post.id \notin DOMAIN seen
  IN  isRecent /\ notSeen

isNewPostNoSeen(post, timeWindowMinutes, seen, nowMs) ==
  IF post.id = "" \/ post.pubDate.kind = "missing" THEN FALSE
  ELSE isWithinTimeWindow(post.pubDate, timeWindowMinutes, nowMs)

isNewPost(post, timeWindowMinutes, seen, nowMs) ==
  IF post.id = "" \/ post.pubDate.kind = "missing" THEN FALSE
  ELSE LET isRecent == isWithinTimeWindow(post.pubDate, timeWindowMinutes, nowMs)
           notSeen == post.id \notin DOMAIN seen
       IN  isRecent /\ notSeen

seenAfterIsNewPostMarked(post, timeWindowMinutes, seen, nowMs) ==
  IF isNewPost(post, timeWindowMinutes, seen, nowMs)
    THEN [k \in DOMAIN seen \cup {post.id} |-> IF k = post.id THEN nowMs ELSE seen[k]]
    ELSE seen

\* the seen map after isNewPost has returned: it reads the map (has) and
\* writes nothing
seenAfterIsNewPost(post, timeWindowMinutes, seen, nowMs) == seen

markAsSeen(seen, postId, nowMs) ==
  [k \in DOMAIN seen \cup {postId} |-> IF k = postId THEN nowMs ELSE seen[k]]

cleanupGe(seen, nowMs) ==
  LET keep == {k \in DOMAIN seen : ~(nowMs - seen[k] >= MAX_AGE_MS)}
  IN  [k \in keep |-> seen[k]]

cleanup(seen, nowMs) ==
  LET keep == {k \in DOMAIN seen : ~(nowMs - seen[k] > MAX_AGE_MS)}
  IN  [k \in keep |-> seen[k]]

getTrackedCount(seen) == Cardinality(DOMAIN seen)

(* --------------------------- rssService.js ---------------------------- *)
\* one result per configured subreddit, ok[i] telling whether its fetch
\* succeeded
fetchMultipleFeeds(ok) ==
  [i \in 1..Len(Subreddits) |->
     [success |-> ok[i], subreddit |-> Subreddits[i],
      posts |-> IF ok[i] THEN feed[Subreddits[i]] ELSE <<>>]]

getAllPostsOrNone(feedResults) ==
  IF \A i \in 1..Len(feedResults) : feedResults[i].success
    THEN Concat([i \in 1..Len(feedResults) |-> feedResults[i].posts])
    ELSE <<>>

getAllPosts(feedResults) ==
  Concat([i \in 1..Len(feedResults) |->
            IF feedResults[i].success THEN feedResults[i].posts ELSE <<>>])

(* -------------------------- openaiService.js -------------------------- *)
\* what the completion call can come back with: a reply, a decision to skip,
\* a failed call (an empty or unparseable answer ends like the failed call,
\* with another reason text)
AiOutcomes == {"reply", "skip", "apiError"}
AiFailures == {"apiError", "empty", "badJson"}

generateReply(outcome) ==
  CASE outcome = "apiError" -> [shouldReply |-> FALSE, reply |-> "null", reason |-> "OpenAI API error"]
    [] outcome = "empty"    -> [shouldReply |-> FALSE, reply |-> "null", reason |-> "No response from AI"]
    [] outcome = "badJson"  -> [shouldReply |-> FALSE, reply |-> "null", reason |-> "AI response error"]
    [] outcome = "skip"     -> [shouldReply |-> FALSE, reply |-> "null", reason |-> "Not relevant"]
    [] outcome = "reply"    -> [shouldReply |-> TRUE,  reply |-> "text", reason |-> "Not relevant"]
    [] outcome = "replyNoText" -> [shouldReply |-> TRUE, reply |-> "null", reason |-> "Not relevant"]

\* posts that were never analysed carry no shouldReply property
Unanalyzed(posts) ==
  [i \in 1..Len(posts) |->
     [id |-> posts[i].id, subreddit |-> posts[i].subreddit,
      shouldReply |-> "undefined", aiReply |-> "undefined",
      skipReason |-> "undefined", outcome |-> "none"]]

analyzeAllPosts(posts, outcomes) ==
  [i \in 1..Len(posts) |->
     LET result == generateReply(outcomes[i])
     IN  [id |-> posts[i].id, subreddit |-> posts[i].subreddit,
          shouldReply |-> IF result.shouldReply THEN "true" ELSE "false",
          aiReply |-> result.reply,
          skipReason |-> IF result.shouldReply THEN "null" ELSE result.reason,
          outcome |-> outcomes[i]]]

(* -------------------------- emailService.js --------------------------- *)
formatEmailBody(posts) ==
  [i \in 1..Len(posts) |->
     IF posts[i].shouldReply = "false"
       THEN [id |-> posts[i].id, entry |-> "skip",
             text |-> IF posts[i].skipReason \in {"null", "undefined"}
                        THEN "Not relevant" ELSE posts[i].skipReason]
     ELSE IF posts[i].aiReply \notin {"null", "undefined"}
       THEN [id |-> posts[i].id, entry |-> "reply", text |-> posts[i].aiReply]
     ELSE [id |-> posts[i].id, entry |-> "plain", text |-> ""]]

IsNotSkipped(post) == post.shouldReply # "false"
\* the posts sendNotification keeps for the message
postsToEmail(posts) == SelectSeq(posts, IsNotSkipped)

(* ------------------------------ index.js ------------------------------ *)
MarkAllFirst(seen, posts, nowMs) ==
  IF Len(posts) = 0 THEN seen ELSE markAsSeen(seen, Head(posts).id, nowMs)

\* newPosts.forEach(post => postTracker.markAsSeen(post.id))
RECURSIVE MarkAll(_, _, _)
MarkAll(seen, posts, nowMs) ==
  IF Len(posts) = 0 THEN seen
  ELSE MarkAll(markAsSeen(seen, Head(posts).id, nowMs), Tail(posts), nowMs)

FilterNew(allPosts, seen, nowMs) ==
  SelectSeq(allPosts, LAMBDA post : isNewPost(post, window, seen, nowMs))

AfterSendCleanupOnSuccess(seen, newPosts, emailSent, nowMs) ==
  IF emailSent THEN cleanup(MarkAll(seen, newPosts, nowMs), nowMs) ELSE seen

AfterSendAlways(seen, newPosts, emailSent, nowMs) ==
  cleanup(MarkAll(seen, newPosts, nowMs), nowMs)

\* lines 71-78: mark the batch if the email went out, then clean up
AfterSend(seen, newPosts, emailSent, nowMs) ==
  cleanup(IF emailSent THEN MarkAll(seen, newPosts, nowMs) ELSE seen, nowMs)

NewCycle ==
  [pc |-> "fetching", startedAt |-> now,
   allPosts |-> <<>>, newPosts |-> <<>>, seenAtFilter |-> {},
   analyzed |-> <<>>, payload |-> <<>>, dispatches |-> 0]

\* an invocation that has returned: its locals are gone
Gone ==
  [pc |-> "done", startedAt |-> 0,
   allPosts |-> <<>>, newPosts |-> <<>>, seenAtFilter |-> {},
   analyzed |-> <<>>, payload |-> <<>>, dispatches |-> 0]

NoCycle ==
  [cycle |-> 0, fetchedIds |-> {}, newIds |-> {}, dispatches |-> 0,
   emailSent |-> "none"]

\* the summary of invocation c as it returns: what it fetched, what was new,
\* how many emails it handed to MailerSend, and the value of emailSent
\* ("none" when sendNotification was never called)
Returned(c, cycle, emailSent) ==
  [cycle |-> c, fetchedIds |-> Ids(cycle.allPosts), newIds |-> Ids(cycle.newPosts),
   dispatches |-> cycle.dispatches, emailSent |-> emailSent]

InFlight(c) == cycles[c].pc # "done"

NoPost == [id |-> "", subreddit |-> "", pubDate |-> [kind |-> "missing", ms |-> 0]]

\* a process whose environment is not looked at
NoStartup ==
  [env |-> [MAILERSEND_API_TOKEN |-> <<>>, FROM_EMAIL |-> <<>>, TO_EMAIL |-> <<>>,
            SUBREDDITS |-> <<>>, CHECK_INTERVAL_MINUTES |-> <<>>,
            POST_AGE_MINUTES |-> <<>>],
   phase |-> "none", error |-> ""]

\* a logger nobody has constructed
NoLogger == [env |-> <<>>, phase |-> "none", level |-> 1, calls |-> <<>>, out |-> <<>>]

\* no cron task yet: the process has not started
NoTimer ==
  [minute |-> 0, n |-> 1, initial |-> FALSE, scheduled |-> FALSE,
   fires |-> 0, prevFire |-> 0, lastFire |-> 0]

\* a tracker nobody has called yet
NoTracker ==
  [now |-> 0, seen |-> <<>>, op |-> "none", post |-> NoPost, result |-> "none",
   logged |-> "none", removed |-> 0, batch |-> <<>>, advances |-> 0]

TypeOK ==
  /\ now \in 0..(MaxNowMin * MinuteMs)
  /\ interval \in Intervals /\ window \in Windows /\ enabled \in BOOLEAN
  /\ DOMAIN seenPosts \subseteq PostIds
  /\ Len(cycles) <= MaxCycles

Init ==
  /\ now = 0
  /\ interval \in Intervals
  /\ window \in Windows
  /\ enabled \in BOOLEAN
  /\ feed = [s \in Range(Subreddits) |-> <<>>]
  /\ seenPosts = <<>>
  /\ cycles = <<>>
  /\ last = NoCycle
  /\ sent = <<>>
  /\ started = FALSE
  /\ scheduled = FALSE
  /\ lastFire = 0
  /\ exited = FALSE
  /\ fNow = 0 /\ fPub = [kind |-> "garbage", ms |-> 0] /\ fWin = 1 /\ fResult = "none"
  /\ tracker = NoTracker /\ timer = NoTimer /\ startup = NoStartup
  /\ logger = NoLogger


(* ------------------------------ actions ------------------------------- *)
Minute == now \div MinuteMs

\* the pattern */N of the minute field matches the minutes of the hour that
\* are multiples of N
CronMatches(minute, n) == (minute % 60) % n = 0

CronDue == scheduled /\ Minute > lastFire /\ CronMatches(Minute, interval)

Others == <<fNow, fPub, fWin, fResult, tracker, timer, startup, logger, interval, window,
           enabled>>

\* the process is alive
Running == ~exited

\* the feeds list new posts in the first minutes, and again once the
\* tracker's hour has passed
Publishing == now <= MaxPublishMin * MinuteMs \/ now >= MAX_AGE_MS

\* a feed lists a new post, published now
Publish(id) ==
  /\ Publishing
  /\ \A s \in DOMAIN feed : id \notin Ids(feed[s])
  /\ feed' = [feed EXCEPT ![SubOf(id)] =
                Append(@, [id |-> id, subreddit |-> SubOf(id),
                           pubDate |-> [kind |-> "date", ms |-> now]])]
  /\ UNCHANGED <<now, seenPosts, cycles, last, sent, started, scheduled, lastFire,
                 exited, Others>>

\* start(): the initial check, index.js line 100
Start ==
  /\ Running /\ ~started
  /\ started' = TRUE
  /\ cycles' = Append(cycles, NewCycle)
  /\ UNCHANGED <<now, feed, seenPosts, last, sent, scheduled, lastFire, exited, Others>>

\* start(): cron.schedule, once the initial check has returned
ScheduleCron ==
  /\ Running /\ started /\ ~scheduled
  /\ Len(cycles) >= 1 /\ cycles[1].pc = "done"
  /\ scheduled' = TRUE
  /\ lastFire' = Minute
  /\ UNCHANGED <<now, feed, seenPosts, cycles, last, sent, started, exited, Others>>

CronFireWhenIdle ==
  /\ CronDue
  /\ \A c \in 1..Len(cycles) : cycles[c].pc = "done"
  /\ Len(cycles) < MaxCycles
  /\ cycles' = Append(cycles, NewCycle)
  /\ lastFire' = Minute
  /\ UNCHANGED <<now, feed, seenPosts, last, sent, started, scheduled, exited, Others>>

\* the cron callback: a new monitorFeeds(), whatever the earlier ones do
CronFire ==
  /\ Running /\ CronDue
  /\ Len(cycles) < MaxCycles
  /\ cycles' = Append(cycles, NewCycle)
  /\ lastFire' = Minute
  /\ UNCHANGED <<now, feed, seenPosts, last, sent, started, scheduled, exited, Others>>

\* minute of the next cron firing after minute m
RECURSIVE NextCronMinute(_, _)
NextCronMinute(m, n) ==
  IF CronMatches(m + 1, n) THEN m + 1 ELSE NextCronMinute(m + 1, n)

Idle == \A c \in 1..Len(cycles) : ~InFlight(c)

\* the clock: a minute passes while something is in flight or the feeds may
\* still publish; an idle process sleeps until the next cron firing
TickStep ==
  IF scheduled /\ Idle /\ now >= MaxPublishMin * MinuteMs
    THEN (NextCronMinute(Minute, interval) - Minute) * MinuteMs
    ELSE MinuteMs

Tick ==
  /\ Running /\ started
  /\ (Len(cycles) >= 1 /\ cycles[1].pc = "done") => scheduled
  /\ ~(CronDue /\ Len(cycles) < MaxCycles)
  /\ Len(cycles) < MaxCycles \/ ~Idle
  /\ \A c \in 1..Len(cycles) :
        InFlight(c) => now - cycles[c].startedAt < MaxCycleMin * MinuteMs
  /\ now + TickStep <= MaxNowMin * MinuteMs
  /\ now' = now + TickStep
  /\ UNCHANGED <<feed, seenPosts, cycles, last, sent, started, scheduled, lastFire, exited, Others>>

\* monitorFeeds lines 35-46, and lines 78-80 when nothing is new: what the
\* invocation, the seen map and the summary become when the fetches have
\* settled with the results ok
Fetched(c, ok) ==
  LET allPosts == getAllPosts(fetchMultipleFeeds(ok))
      newPosts == FilterNew(allPosts, seenPosts, now)
      filtered == [cycles[c] EXCEPT !.allPosts = allPosts, !.newPosts = newPosts,
                                    !.seenAtFilter = DOMAIN seenPosts]
  IN  IF Len(newPosts) > 0
        THEN [cycle |-> [filtered EXCEPT !.pc = "content"],
              seenPosts |-> seenPosts, last |-> last]
        ELSE [cycle |-> Gone,
              seenPosts |-> cleanup(seenPosts, now),
              last |-> Returned(c, filtered, "none")]

FetchDone(c, ok) ==
  /\ Running /\ cycles[c].pc = "fetching"
  /\ cycles' = [cycles EXCEPT ![c] = Fetched(c, ok).cycle]
  /\ seenPosts' = Fetched(c, ok).seenPosts
  /\ last' = Fetched(c, ok).last
  /\ UNCHANGED <<now, feed, sent, started, scheduled, lastFire, exited, Others>>

\* sendNotification up to its await (lines 46-94), then monitorFeeds lines
\* 71-80 when it returns false without sending
CallSend(c, analyzedPosts) ==
  LET toEmail == postsToEmail(analyzedPosts)
  IN  IF Len(analyzedPosts) = 0 \/ Len(toEmail) = 0
        THEN /\ cycles' = [cycles EXCEPT ![c] = Gone]
             /\ seenPosts' = AfterSend(seenPosts, cycles[c].newPosts, FALSE, now)
             /\ last' = Returned(c, cycles[c], "false")
        ELSE /\ cycles' = [cycles EXCEPT ![c] =
                             [@ EXCEPT !.pc = "sending",
                                       !.analyzed = analyzedPosts,
                                       !.payload = formatEmailBody(toEmail),
                                       !.dispatches = @ + 1]]
             /\ seenPosts' = seenPosts
             /\ last' = last

\* monitorFeeds lines 52-69: the full-content fetches have all settled
ContentDone(c) ==
  /\ Running /\ cycles[c].pc = "content"
  /\ IF enabled
       THEN /\ cycles' = [cycles EXCEPT ![c].pc = "analyzing"]
            /\ seenPosts' = seenPosts
            /\ last' = last
       ELSE CallSend(c, Unanalyzed(cycles[c].newPosts))
  /\ UNCHANGED <<now, feed, sent, started, scheduled, lastFire, exited, Others>>

\* monitorFeeds lines 65-69: every generateReply has settled
AnalyzeDone(c, outcomes) ==
  /\ Running /\ cycles[c].pc = "analyzing"
  /\ CallSend(c, analyzeAllPosts(cycles[c].newPosts, outcomes))
  /\ UNCHANGED <<now, feed, sent, started, scheduled, lastFire, exited, Others>>

\* mailerSend.email.send settles (lines 94-104), then monitorFeeds 71-80
SendDone(c, ok) ==
  /\ Running /\ cycles[c].pc = "sending"
  /\ cycles' = [cycles EXCEPT ![c] = Gone]
  /\ last' = Returned(c, cycles[c], IF ok THEN "true" ELSE "false")
  /\ sent' = IF ok THEN Append(sent, [cycle |-> c, ids |-> Ids(cycles[c].payload)])
                   ELSE sent
  /\ seenPosts' = AfterSend(seenPosts, cycles[c].newPosts, ok, now)
  /\ UNCHANGED <<now, feed, started, scheduled, lastFire, exited, Others>>

Uncaught == exited' = TRUE

\* monitorFeeds lines 82-85: the error is logged and monitorFeeds returns
\* normally to start() or to the cron callback
Caught == exited' = exited

\* the rejection of mailerSend.email.send makes sendNotification's own error
\* handler throw (lines 99-103: a rejection value without properties, a body
\* JSON.stringify cannot serialise); monitorFeeds lines 72-80 are skipped
SendThrows(c) ==
  /\ Running /\ cycles[c].pc = "sending"
  /\ cycles' = [cycles EXCEPT ![c] = Gone]
  /\ last' = Returned(c, cycles[c], "threw")
  /\ Caught
  /\ UNCHANGED <<now, feed, seenPosts, sent, started, scheduled, lastFire, Others>>

Next ==
  \/ \E id \in PostIds : Publish(id)
  \/ Start
  \/ ScheduleCron
  \/ CronFire
  \/ Tick
  \/ \E c \in 1..Len(cycles), ok \in [1..Len(Subreddits) -> BOOLEAN] : FetchDone(c, ok)
  \/ \E c \in 1..Len(cycles) : ContentDone(c)
  \/ \E c \in 1..Len(cycles) :
       \E outcomes \in [1..Len(cycles[c].newPosts) -> AiOutcomes] : AnalyzeDone(c, outcomes)
  \/ \E c \in 1..Len(cycles), ok \in BOOLEAN : SendDone(c, ok)
  \/ \E c \in 1..Len(cycles) : SendThrows(c)

Spec == Init /\ [][Next]_vars

(* -------------- the monitor when nothing outside it fails ------------- *)
\* every feed answers
AllOk == [i \in 1..Len(Subreddits) |-> TRUE]

\* annotation is off and the window is at least the polling period
InitLive == Init /\ ~enabled /\ window >= interval

\* the steps of Next in which every fetch and every dispatch succeeds
NextLive ==
  \/ \E id \in PostIds : Publish(id)
  \/ Start
  \/ ScheduleCron
  \/ CronFire
  \/ Tick
  \/ \E c \in 1..Len(cycles) : FetchDone(c, AllOk)
  \/ \E c \in 1..Len(cycles) : ContentDone(c)
  \/ \E c \in 1..Len(cycles) : SendDone(c, TRUE)

\* the event loop runs every callback that is ready, the clock advances, the
\* cron task fires at every matching minute and every awaited call settles;
\* nothing obliges a feed to publish
Fairness ==
  /\ WF_vars(Start) /\ WF_vars(ScheduleCron) /\ WF_vars(CronFire) /\ WF_vars(Tick)
  /\ WF_vars(\E c \in 1..Len(cycles) : FetchDone(c, AllOk))
  /\ WF_vars(\E c \in 1..Len(cycles) : ContentDone(c))
  /\ WF_vars(\E c \in 1..Len(cycles) : SendDone(c, TRUE))

SpecLive == InitLive /\ [][NextLive]_vars /\ Fairness


(* ---------------- isWithinTimeWindow on its own inputs ---------------- *)
\* ages (now - publish time, in ms) around both ends of every window
FreshAges == {-600000, -1, 0, 1, 59999, 60000, 60001, 119999, 120000, 120001,
              299999, 300000, 300001}
FreshNows == {600000, 600001}
FreshWindows == {1, 2, 5}

InitFresh ==
  /\ now = 0 /\ interval = 1 /\ window = 1 /\ enabled = FALSE
  /\ feed = [s \in Range(Subreddits) |-> <<>>]
  /\ seenPosts = <<>> /\ cycles = <<>> /\ last = NoCycle /\ sent = <<>>
  /\ started = FALSE /\ scheduled = FALSE /\ lastFire = 0 /\ exited = FALSE
  /\ fNow \in FreshNows
  /\ fWin \in FreshWindows
  /\ fPub \in {[kind |-> "date", ms |-> fNow - a] : a \in FreshAges}
              \cup {[kind |-> "garbage", ms |-> 0]}
  /\ fResult = "none"
  /\ tracker = NoTracker /\ timer = NoTimer /\ startup = NoStartup
  /\ logger = NoLogger

CallIsWithinTimeWindow ==
  /\ fResult = "none"
  /\ fResult' = IF isWithinTimeWindow(fPub, fWin, fNow) THEN "true" ELSE "false"
  /\ UNCHANGED <<mainVars, fNow, fPub, fWin, tracker, timer, startup, logger>>

NextFresh == CallIsWithinTimeWindow

SpecFresh == InitFresh /\ [][NextFresh]_vars

(* ------------------- the tracker driven call by call ------------------ *)
\* clock advances in one run of the tracker
MaxAdvances == 3
\* how far the clock moves between two calls: a millisecond, and an hour
\* less a millisecond or exactly
TrackerSteps == {1, MAX_AGE_MS - 1, MAX_AGE_MS}
\* freshness windows on both sides of the tracker's one-hour horizon
TrackerWindows == {1, 61}
\* what fetchFeed hands over: two well-formed posts, an item without id or
\* guid, an item without pubDate or isoDate, an item with an unparseable date
TrackerFeed ==
  << [id |-> "a1", subreddit |-> "s1", pubDate |-> [kind |-> "date", ms |-> 0]],
     [id |-> "", subreddit |-> "s1", pubDate |-> [kind |-> "date", ms |-> 0]],
     [id |-> "a2", subreddit |-> "s2", pubDate |-> [kind |-> "date", ms |-> 0]],
     [id |-> "b1", subreddit |-> "s2", pubDate |-> [kind |-> "missing", ms |-> 0]],
     [id |-> "b2", subreddit |-> "s2", pubDate |-> [kind |-> "garbage", ms |-> 0]] >>

\* getAllPosts(await fetchMultipleFeeds(subreddits)) when SUBREDDITS names the
\* subreddit of these posts twice: fetchFeed runs once per entry of the list
FetchedTwice(posts) ==
  getAllPosts(<< [success |-> TRUE, subreddit |-> "s1", posts |-> posts],
                 [success |-> TRUE, subreddit |-> "s1", posts |-> posts] >>)

\* the concatenated fetch results a cycle can filter: every subreddit listed
\* once, or s1 listed twice
TrackerFetches ==
  {TrackerFeed,
   FetchedTwice(SelectSeq(TrackerFeed, LAMBDA post : post.subreddit = "s1"))}

\* what isNewPost writes to the log: an error for an invalid post object, a
\* debug line for a new post, nothing otherwise
isNewPostLog(post, timeWindowMinutes, seen, nowMs) ==
  IF post.id = "" \/ post.pubDate.kind = "missing" THEN "error"
  ELSE IF isNewPost(post, timeWindowMinutes, seen, nowMs) THEN "debug"
  ELSE "none"

\* removedCount of cleanup
cleanupRemoved(seen, nowMs) ==
  Cardinality(DOMAIN seen \ DOMAIN cleanup(seen, nowMs))

Called(op) ==
  [tracker EXCEPT !.op = op, !.post = NoPost, !.result = "none",
                  !.logged = "none", !.removed = 0]

InitTracker ==
  /\ now = 0 /\ interval = 1 /\ enabled = FALSE
  /\ window \in TrackerWindows
  /\ feed = [s \in Range(Subreddits) |-> <<>>]
  /\ seenPosts = <<>> /\ cycles = <<>> /\ last = NoCycle /\ sent = <<>>
  /\ started = FALSE /\ scheduled = FALSE /\ lastFire = 0 /\ exited = FALSE
  /\ fNow = 0 /\ fPub = [kind |-> "garbage", ms |-> 0] /\ fWin = 1 /\ fResult = "none"
  /\ tracker = NoTracker /\ timer = NoTimer /\ startup = NoStartup
  /\ logger = NoLogger

TrackerFrame == UNCHANGED <<mainVars, freshVars, timer, startup, logger>>

\* postTracker.isNewPost(post, postAgeMinutes)
TIsNewPost(post) ==
  /\ tracker' = [Called("isNewPost") EXCEPT
                   !.post = post,
                   !.result = IF isNewPost(post, window, tracker.seen, tracker.now)
                                THEN "true" ELSE "false",
                   !.logged = isNewPostLog(post, window, tracker.seen, tracker.now),
                   !.seen = seenAfterIsNewPost(post, window, tracker.seen, tracker.now)]
  /\ TrackerFrame

\* allPosts.filter(post => postTracker.isNewPost(post, postAgeMinutes))
TFilter(allPosts) ==
  /\ tracker' = [Called("filter") EXCEPT
                   !.batch = FilterNew(allPosts, tracker.seen, tracker.now)]
  /\ TrackerFrame

\* postTracker.markAsSeen(post.id) for the next post of the batch
TMarkAsSeen ==
  /\ Len(tracker.batch) > 0
  /\ tracker' = [Called("markAsSeen") EXCEPT
                   !.seen = markAsSeen(tracker.seen, Head(tracker.batch).id, tracker.now),
                   !.batch = Tail(tracker.batch)]
  /\ TrackerFrame

\* postTracker.cleanup()
TCleanup ==
  /\ tracker' = [Called("cleanup") EXCEPT
                   !.seen = cleanup(tracker.seen, tracker.now),
                   !.removed = cleanupRemoved(tracker.seen, tracker.now)]
  /\ TrackerFrame

\* time passes between two calls
TAdvance(d) ==
  /\ tracker.advances < MaxAdvances
  /\ tracker' = [Called("advance") EXCEPT !.now = @ + d, !.advances = @ + 1]
  /\ TrackerFrame

NextTracker ==
  \/ \E i \in 1..Len(TrackerFeed) : TIsNewPost(TrackerFeed[i])
  \/ \E allPosts \in TrackerFetches : TFilter(allPosts)
  \/ TMarkAsSeen
  \/ TCleanup
  \/ \E d \in TrackerSteps : TAdvance(d)

SpecTracker == InitTracker /\ [][NextTracker]_vars

(* ------------------------------- env.js ------------------------------- *)
\* A string is the sequence of its characters; the empty sequence stands for
\* a variable that is unset or set to the empty string (both are falsy).
Digits == <<"0", "1", "2", "3", "4", "5", "6", "7", "8", "9">>
IsDigit(ch) == \E d \in 1..10 : Digits[d] = ch
DigitValue(ch) == (CHOOSE d \in 1..10 : Digits[d] = ch) - 1
IsSpace(ch) == ch = " "

RECURSIVE TrimStart(_)
TrimStart(str) ==
  IF Len(str) > 0 /\ IsSpace(Head(str)) THEN TrimStart(Tail(str)) ELSE str
RECURSIVE TrimEnd(_)
TrimEnd(str) ==
  IF Len(str) > 0 /\ IsSpace(str[Len(str)])
    THEN TrimEnd(SubSeq(str, 1, Len(str) - 1)) ELSE str
\* String.prototype.trim
Trim(str) == TrimEnd(TrimStart(str))

\* String.prototype.split(','): the pieces between the commas, empty ones
\* included
RECURSIVE Split(_, _)
Split(str, piece) ==
  IF Len(str) = 0 THEN <<piece>>
  ELSE IF Head(str) = "," THEN <<piece>> \o Split(Tail(str), <<>>)
  ELSE Split(Tail(str), Append(piece, Head(str)))

RECURSIVE ParseDigits(_, _, _)
ParseDigits(str, any, acc) ==
  IF Len(str) > 0 /\ IsDigit(Head(str))
    THEN ParseDigits(Tail(str), TRUE, acc * 10 + DigitValue(Head(str)))
    ELSE [nan |-> ~any, v |-> acc]

\* parseInt(str, 10): leading white space, an optional sign, then the longest
\* run of digits; whatever follows is ignored; NaN when there is no digit
parseInt(str) ==
  LET t == TrimStart(str)
      negative == Len(t) > 0 /\ Head(t) = "-"
      body == IF Len(t) > 0 /\ Head(t) \in {"+", "-"} THEN Tail(t) ELSE t
      r == ParseDigits(body, FALSE, 0)
  IN  IF r.nan THEN r
      ELSE [nan |-> FALSE, v |-> IF negative THEN 0 - r.v ELSE r.v]

\* x < 1, false when x is NaN
LessThanOne(x) == ~x.nan /\ x.v < 1

getEnv(value, defaultValue) == IF value = <<>> THEN defaultValue ELSE value

\* /^[^\s@]+@[^\s@]+\.[^\s@]+$/.test(email)
isValidEmail(email) ==
  \E i, j \in 1..Len(email) :
    /\ email[i] = "@" /\ email[j] = "."
    /\ 1 < i /\ i + 1 < j /\ j < Len(email)
    /\ \A k \in 1..Len(email) : k # i => ~IsSpace(email[k]) /\ email[k] # "@"

ParseSubreddits(value) ==
  SelectSeq([i \in 1..Len(Split(value, <<>>)) |-> Trim(Split(value, <<>>)[i])],
            LAMBDA piece : Len(piece) > 0)

\* loading env.js: the error it throws, "" when it exports config
LoadConfig(env) ==
  LET checkIntervalMinutes == parseInt(getEnv(env.CHECK_INTERVAL_MINUTES, <<"5">>))
      postAgeMinutes == parseInt(getEnv(env.POST_AGE_MINUTES, <<"5">>))
  IN  IF env.MAILERSEND_API_TOKEN = <<>>
        THEN "Missing required environment variable: MAILERSEND_API_TOKEN"
      ELSE IF env.FROM_EMAIL = <<>>
        THEN "Missing required environment variable: FROM_EMAIL"
      ELSE IF env.TO_EMAIL = <<>>
        THEN "Missing required environment variable: TO_EMAIL"
      ELSE IF env.SUBREDDITS = <<>>
        THEN "Missing required environment variable: SUBREDDITS"
      ELSE IF ~isValidEmail(env.FROM_EMAIL) THEN "Invalid FROM_EMAIL"
      ELSE IF ~isValidEmail(env.TO_EMAIL) THEN "Invalid TO_EMAIL"
      ELSE IF Len(ParseSubreddits(env.SUBREDDITS)) = 0
        THEN "SUBREDDITS must contain at least one subreddit"
      ELSE IF LessThanOne(checkIntervalMinutes)
        THEN "CHECK_INTERVAL_MINUTES must be at least 1"
      ELSE IF LessThanOne(postAgeMinutes)
        THEN "POST_AGE_MINUTES must be at least 1"
      ELSE ""

\* the values process.env is drawn from
EnvTokens == {<<>>, <<"t">>}
EnvFromEmails == {<<>>, <<"a", "@", "b", ".", "c">>, <<"a", "b">>, <<"a", "@", "b">>,
                  <<"a", " ", "@", "b", ".", "c">>}
EnvToEmails == {<<>>, <<"a", "@", "b", ".", "c">>, <<"@", "b", ".", "c">>}
EnvSubreddits == {<<>>, <<" ", ",", " ">>, <<"s", ",", " ", "t">>, <<"s">>}
EnvIntervals == {<<>>, <<"0">>, <<"1">>, <<"1", "5">>, <<"-", "3">>,
                 <<"a", "b", "c">>, <<"1", ".", "5">>, <<"5", "x">>}
EnvWindows == {<<>>, <<"0">>, <<"2">>, <<"a", "b", "c">>, <<"0", ".", "5">>}

InitStartup ==
  /\ now = 0 /\ interval = 1 /\ window = 1 /\ enabled = FALSE
  /\ feed = [s \in Range(Subreddits) |-> <<>>]
  /\ seenPosts = <<>> /\ cycles = <<>> /\ last = NoCycle /\ sent = <<>>
  /\ started = FALSE /\ scheduled = FALSE /\ lastFire = 0 /\ exited = FALSE
  /\ fNow = 0 /\ fPub = [kind |-> "garbage", ms |-> 0] /\ fWin = 1 /\ fResult = "none"
  /\ tracker = NoTracker /\ timer = NoTimer /\ logger = NoLogger
  /\ \E t \in EnvTokens, f \in EnvFromEmails, a \in EnvToEmails, s \in EnvSubreddits,
        n \in EnvIntervals, w \in EnvWindows :
       startup = [env |-> [MAILERSEND_API_TOKEN |-> t, FROM_EMAIL |-> f,
                           TO_EMAIL |-> a, SUBREDDITS |-> s,
                           CHECK_INTERVAL_MINUTES |-> n, POST_AGE_MINUTES |-> w],
                  phase |-> "importing", error |-> ""]

StartupFrame == UNCHANGED <<mainVars, freshVars, tracker, timer, logger>>

\* index.js imports env.js: the module throws, or exports config
SImport ==
  /\ startup.phase = "importing"
  /\ startup' = [startup EXCEPT
                   !.error = LoadConfig(startup.env),
                   !.phase = IF LoadConfig(startup.env) = "" THEN "loaded" ELSE "aborted"]
  /\ StartupFrame

\* start(): the initial check
SInitialCheck ==
  /\ startup.phase = "loaded"
  /\ startup' = [startup EXCEPT !.phase = "checked"]
  /\ StartupFrame

\* start(): cron.schedule with the pattern built from checkIntervalMinutes;
\* what node-cron does with the pattern */NaN is not part of this program
SSchedule ==
  /\ startup.phase = "checked"
  /\ ~parseInt(getEnv(startup.env.CHECK_INTERVAL_MINUTES, <<"5">>)).nan
  /\ startup' = [startup EXCEPT !.phase = "scheduled"]
  /\ StartupFrame

NextStartup == SImport \/ SInitialCheck \/ SSchedule

SpecStartup == InitStartup /\ [][NextStartup]_vars

(* ------------------------------ logger.js ----------------------------- *)
\* how many calls are made on one logger
MaxLogCalls == 3

LevelDebug == <<"d", "e", "b", "u", "g">>
LevelInfo == <<"i", "n", "f", "o">>
LevelError == <<"e", "r", "r", "o", "r">>

\* LOG_LEVELS[level]: the number of a known level, undefined for any other key
LOG_LEVELS(level) ==
  CASE level = LevelDebug -> [undef |-> FALSE, v |-> 0]
    [] level = LevelInfo  -> [undef |-> FALSE, v |-> 1]
    [] level = LevelError -> [undef |-> FALSE, v |-> 2]
    [] OTHER              -> [undef |-> TRUE, v |-> 0]

\* constructor: this.level = LOG_LEVELS[level] || LOG_LEVELS.info, where ||
\* takes its right side when the left is undefined or 0
LoggerLevel(level) ==
  LET l == LOG_LEVELS(level)
  IN  IF l.undef \/ l.v = 0 THEN LOG_LEVELS(LevelInfo).v ELSE l.v

\* debug(), info(), error(): whether the call prints its line
Emits(method, level) == level <= LOG_LEVELS(method).v

\* values of LOG_LEVEL in the environment: unset, the three levels, an unknown
\* name, and a level in capitals
EnvLogLevels == {<<>>, LevelDebug, LevelInfo, LevelError, <<"w", "a", "r", "n">>,
                 <<"D", "E", "B", "U", "G">>}

InitLogger ==
  /\ now = 0 /\ interval = 1 /\ window = 1 /\ enabled = FALSE
  /\ feed = [s \in Range(Subreddits) |-> <<>>]
  /\ seenPosts = <<>> /\ cycles = <<>> /\ last = NoCycle /\ sent = <<>>
  /\ started = FALSE /\ scheduled = FALSE /\ lastFire = 0 /\ exited = FALSE
  /\ fNow = 0 /\ fPub = [kind |-> "garbage", ms |-> 0] /\ fWin = 1 /\ fResult = "none"
  /\ tracker = NoTracker /\ timer = NoTimer /\ startup = NoStartup
  /\ \E l \in EnvLogLevels : logger = [NoLogger EXCEPT !.env = l, !.phase = "importing"]

LoggerFrame == UNCHANGED <<mainVars, freshVars, tracker, timer, startup>>

\* index.js: new Logger(config.logging.level), the level read by
\* getEnv('LOG_LEVEL', 'info')
LNew ==
  /\ logger.phase = "importing"
  /\ logger' = [logger EXCEPT !.phase = "ready",
                              !.level = LoggerLevel(getEnv(logger.env, LevelInfo))]
  /\ LoggerFrame

\* one call of logger.debug, logger.info or logger.error
LCall(method) ==
  /\ logger.phase = "ready" /\ Len(logger.calls) < MaxLogCalls
  /\ logger' = [logger EXCEPT
                  !.calls = Append(@, method),
                  !.out = IF Emits(method, logger.level) THEN Append(@, method) ELSE @]
  /\ LoggerFrame

LDebug == LCall(LevelDebug)
LInfo == LCall(LevelInfo)
LError == LCall(LevelError)

NextLogger == LNew \/ LDebug \/ LInfo \/ LError

SpecLogger == InitLogger /\ [][NextLogger]_vars

(* ----------------------- the cron task on its own --------------------- *)
\* last minute the timer's clock reaches, counted from the top of the hour
\* the process starts in
MaxTimerMin == 125
\* values of CHECK_INTERVAL_MINUTES the timer runs under
TimerIntervals == {1, 5, 7, 60}
\* minute of the hour at which the process starts
TimerStarts == {0, 3}

InitTimer ==
  /\ now = 0 /\ interval = 1 /\ window = 1 /\ enabled = FALSE
  /\ feed = [s \in Range(Subreddits) |-> <<>>]
  /\ seenPosts = <<>> /\ cycles = <<>> /\ last = NoCycle /\ sent = <<>>
  /\ started = FALSE /\ scheduled = FALSE /\ lastFire = 0 /\ exited = FALSE
  /\ fNow = 0 /\ fPub = [kind |-> "garbage", ms |-> 0] /\ fWin = 1 /\ fResult = "none"
  /\ tracker = NoTracker /\ startup = NoStartup /\ logger = NoLogger
  /\ \E m \in TimerStarts, n \in TimerIntervals :
       timer = [NoTimer EXCEPT !.minute = m, !.n = n]

TimerFrame == UNCHANGED <<mainVars, freshVars, tracker, startup, logger>>

\* start(): await monitorFeeds(), the initial check
TInitialCheck ==
  /\ ~timer.initial
  /\ timer' = [timer EXCEPT !.initial = TRUE]
  /\ TimerFrame

\* start(): cron.schedule('*/N * * * *', ...)
TSchedule ==
  /\ timer.initial /\ ~timer.scheduled
  /\ timer' = [timer EXCEPT !.scheduled = TRUE, !.lastFire = timer.minute]
  /\ TimerFrame

\* the task's callback runs: a scheduled cycle starts
TFire ==
  /\ timer.scheduled
  /\ timer.minute > timer.lastFire
  /\ CronMatches(timer.minute, timer.n)
  /\ timer' = [timer EXCEPT !.fires = IF @ < 2 THEN @ + 1 ELSE @,
                            !.prevFire = timer.lastFire,
                            !.lastFire = timer.minute]
  /\ TimerFrame

\* a minute passes; a due firing is never skipped
TMinute ==
  /\ timer.minute < MaxTimerMin
  /\ ~(timer.scheduled /\ timer.minute > timer.lastFire
         /\ CronMatches(timer.minute, timer.n))
  /\ timer' = [timer EXCEPT !.minute = @ + 1]
  /\ TimerFrame

NextTimer == TInitialCheck \/ TSchedule \/ TFire \/ TMinute

SpecTimer == InitTimer /\ [][NextTimer]_vars

(* ------------------------------ claims -------------------------------- *)
SentIds == UNION {sent[i].ids : i \in 1..Len(sent)}

\* C1: the seen map gains or rewrites an entry only in the step in which a
\* cycle's dispatch reports success, and only for an item of that cycle's
\* batch; a failed or unattempted dispatch adds nothing.
C1_SeenOnlyAfterSuccess ==
  [][\A id \in PostIds :
       (id \in DOMAIN seenPosts'
          /\ (id \notin DOMAIN seenPosts \/ seenPosts'[id] # seenPosts[id]))
       => \E c \in 1..Len(cycles) :
            /\ cycles[c].pc = "sending" /\ cycles'[c].pc = "done"
            /\ last'.cycle = c /\ last'.emailSent = "true"
            /\ id \in Ids(cycles[c].newPosts)
            /\ Len(sent') = Len(sent) + 1]_vars

\* after an earlier cycle was sent and marked, a cycle's dispatch has failed
\* and nothing of its batch is in the seen map
C1_Witness ==
  /\ last.emailSent = "false" /\ last.dispatches = 1
  /\ last.newIds # {} /\ last.newIds \cap DOMAIN seenPosts = {}
  /\ Len(sent) >= 1 /\ DOMAIN seenPosts # {}

\* C2: no identifier is in more than one successfully dispatched
\* notification.
C2_NoDuplicateNotification ==
  \A i, j \in 1..Len(sent) : i # j => sent[i].ids \cap sent[j].ids = {}

C4_SeenWereDelivered == DOMAIN seenPosts \subseteq SentIds

\* C5: a cycle with a non-empty new subset makes exactly one dispatch whose
\* payload holds every item of the subset; a cycle with an empty new subset
\* makes none.
C5_OneDispatchOfWholeBatch ==
  /\ \A c \in 1..Len(cycles) :
       cycles[c].pc = "sending" =>
         /\ cycles[c].dispatches = 1
         /\ Ids(cycles[c].newPosts) \subseteq Ids(cycles[c].payload)
  /\ last.cycle # 0 => last.dispatches = IF last.newIds # {} THEN 1 ELSE 0

\* C6: an item annotation suppressed is in the dispatched payload as a
\* skipped entry carrying its reason.
C6_SuppressedStillInPayload ==
  \A c \in 1..Len(cycles) :
    cycles[c].pc = "sending" =>
      \A i \in 1..Len(cycles[c].analyzed) :
        cycles[c].analyzed[i].shouldReply = "false" =>
          \E j \in 1..Len(cycles[c].payload) :
            /\ cycles[c].payload[j].id = cycles[c].analyzed[i].id
            /\ cycles[c].payload[j].entry = "skip"
            /\ cycles[c].payload[j].text = cycles[c].analyzed[i].skipReason

\* C7: an item whose annotation failed (API error, empty response,
\* unparseable response) is in the dispatched payload, without annotation.
C7_FailedAnnotationStillSurfaced ==
  \A c \in 1..Len(cycles) :
    cycles[c].pc = "sending" =>
      \A i \in 1..Len(cycles[c].analyzed) :
        cycles[c].analyzed[i].outcome \in AiFailures =>
          \E j \in 1..Len(cycles[c].payload) :
            /\ cycles[c].payload[j].id = cycles[c].analyzed[i].id
            /\ cycles[c].payload[j].entry = "plain"

\* C8: in the step in which a cycle's dispatch reports success, every item
\* of the cycle's new subset is recorded in the seen map under its original
\* identifier, with the current time.
C8_SuccessMarksWholeBatch ==
  [][\A c \in 1..Len(cycles) :
       (/\ cycles[c].pc = "sending" /\ cycles'[c].pc = "done"
        /\ last'.emailSent = "true")
       => \A i \in 1..Len(cycles[c].newPosts) :
            /\ cycles[c].newPosts[i].id \in DOMAIN seenPosts'
            /\ seenPosts'[cycles[c].newPosts[i].id] = now]_vars

\* a sent notification that left out an item of its batch, the whole batch
\* being in the seen map
C8_Witness ==
  \E i \in 1..Len(sent) :
    /\ sent[i].cycle = last.cycle /\ last.emailSent = "true"
    /\ last.newIds \ sent[i].ids # {}
    /\ last.newIds \subseteq DOMAIN seenPosts

\* C9: isNew is false for every identifier in the seen map, whatever the
\* item's freshness and the window; a cycle's new subset holds no
\* identifier that was in the seen map when the cycle filtered.
C9_SeenIsNeverNew ==
  /\ \A s \in DOMAIN feed : \A i \in 1..Len(feed[s]) : \A w \in Windows :
       feed[s][i].id \in DOMAIN seenPosts
         => ~isNewPost(feed[s][i], w, seenPosts, now)
  /\ \A c \in 1..Len(cycles) :
       Ids(cycles[c].newPosts) \cap cycles[c].seenAtFilter = {}

\* a later cycle fetched an item that is still fresh and already notified,
\* and did not offer it as new
C9_Witness ==
  \E s \in DOMAIN feed : \E i \in 1..Len(feed[s]) :
    /\ last.cycle >= 2
    /\ feed[s][i].id \in last.fetchedIds \ last.newIds
    /\ feed[s][i].id \in DOMAIN seenPosts
    /\ feed[s][i].id \in SentIds
    /\ isWithinTimeWindow(feed[s][i].pubDate, window, now)

\* C10: isWithinTimeWindow returns true iff the publish time parses and
\* 0 <= now - publishTime <= windowMinutes * 60000, both ends included.
C10_FreshIffWithinWindow ==
  fResult # "none" =>
    ((fResult = "true") <=>
       (/\ fPub.kind = "date"
        /\ 0 <= fNow - fPub.ms
        /\ fNow - fPub.ms <= fWin * 60000))

\* results on both ends of a window have been computed
C10_Witness ==
  /\ fResult = "true"
  /\ fPub.kind = "date"
  /\ fNow - fPub.ms = fWin * 60000

\* C11: a cleanup removes exactly the records marked more than one hour
\* before it and leaves every other record in place with its time, whatever
\* the configured freshness window is.
C11_CleanupEvictsOlderThanHour ==
  [][tracker'.op = "cleanup" =>
       /\ DOMAIN tracker'.seen \subseteq DOMAIN tracker.seen
       /\ \A k \in DOMAIN tracker.seen :
            IF tracker.now - tracker.seen[k] > MAX_AGE_MS
              THEN k \notin DOMAIN tracker'.seen
              ELSE k \in DOMAIN tracker'.seen
                   /\ tracker'.seen[k] = tracker.seen[k]]_vars

\* under a 61-minute window a cleanup has removed one record, one millisecond
\* past the hour, and kept one that is exactly an hour old
C11_Witness ==
  /\ tracker.op = "cleanup" /\ tracker.removed = 1 /\ window = 61
  /\ \E k \in DOMAIN tracker.seen : tracker.now - tracker.seen[k] = MAX_AGE_MS

\* C12: whichever sources fail, the fetch step leaves the cycle with exactly
\* the items of the sources that succeeded, in source order; its batch is
\* every fresh unseen item among them, and a non-empty batch takes the cycle
\* on to the notify step (an empty one ends the cycle as "no new posts").
C12_FailedSourceDoesNotAbort ==
  \A c \in 1..Len(cycles) : \A ok \in [1..Len(Subreddits) -> BOOLEAN] :
    cycles[c].pc = "fetching" =>
      LET got == Concat([i \in 1..Len(Subreddits) |->
                           IF ok[i] THEN feed[Subreddits[i]] ELSE <<>>])
          new == SelectSeq(got, LAMBDA p : isNewPost(p, window, seenPosts, now))
          after == Fetched(c, ok)
      IN  IF Len(new) > 0
            THEN /\ after.cycle.pc = "content"
                 /\ after.cycle.allPosts = got
                 /\ after.cycle.newPosts = new
            ELSE /\ after.cycle.pc = "done"
                 /\ after.last.cycle = c /\ after.last.emailSent = "none"
                 /\ after.last.fetchedIds = Ids(got)

\* a cycle started after s1 listed a1 is sending the new post of s2 and has
\* nothing of s1: the fetch of s1 had failed
C12_Witness ==
  \E c \in 1..Len(cycles) :
    /\ cycles[c].pc = "sending"
    /\ Len(feed["s1"]) > 0 /\ feed["s1"][1].pubDate.ms < cycles[c].startedAt
    /\ Ids(cycles[c].allPosts) = {"a2"}
    /\ Ids(cycles[c].newPosts) = {"a2"}
    /\ Ids(cycles[c].payload) = {"a2"}

\* C13: the initial check runs before the task is scheduled, and any two
\* consecutive firings of the task are exactly N minutes apart.
C13_FixedPeriod ==
  /\ timer.scheduled => timer.initial
  /\ timer.fires >= 2 => timer.lastFire - timer.prevFire = timer.n

\* C14: a due firing of the task starts a cycle whatever the earlier cycles
\* are doing, and when a cycle's dispatch settles while others are in flight
\* the seen map becomes what its markAsSeen calls followed by cleanup make of
\* the map as the other cycles left it: nothing another cycle wrote is lost.
C14_OverlapIsSequentialOnTheMap ==
  /\ (CronDue /\ Len(cycles) < MaxCycles) =>
       ENABLED (CronFire /\ Len(cycles') = Len(cycles) + 1
                /\ \A c \in 1..Len(cycles) : cycles'[c] = cycles[c])
  /\ \A c \in 1..Len(cycles) : \A ok \in BOOLEAN :
       cycles[c].pc = "sending" =>
         LET marked == IF ok THEN Ids(cycles[c].newPosts) ELSE {}
             stale == {k \in DOMAIN seenPosts \ marked : now - seenPosts[k] > MAX_AGE_MS}
         IN  ENABLED (/\ SendDone(c, ok)
                      /\ DOMAIN seenPosts' = (DOMAIN seenPosts \cup marked) \ stale
                      /\ \A k \in DOMAIN seenPosts' :
                           seenPosts'[k] = IF k \in marked THEN now ELSE seenPosts[k])

\* a cycle is sending while a cycle started after it has already marked a
\* post since the first one filtered
C14_Witness ==
  \E c \in 1..Len(cycles) :
    /\ cycles[c].pc = "sending"
    /\ DOMAIN seenPosts # cycles[c].seenAtFilter
    /\ last.cycle > c /\ last.emailSent = "true"

\* C15: a record that is in the seen map keeps its recorded time for as long
\* as it stays in the map.
C15_RecordedTimeNeverChanges ==
  [][\A id \in DOMAIN seenPosts \cap DOMAIN seenPosts' :
       seenPosts'[id] = seenPosts[id]]_vars

\* C17: when a cycle has ended in the catch block the process is still
\* alive and the cycle has returned; start() goes on to schedule the task if
\* that was the initial check, and a due firing of the task starts a cycle.
C17_ExceptionIsContained ==
  /\ ~exited
  /\ last.emailSent = "threw" =>
       /\ cycles[last.cycle].pc = "done"
       /\ ~scheduled => ENABLED (ScheduleCron /\ scheduled')
       /\ (CronDue /\ Len(cycles) < MaxCycles) =>
            ENABLED (CronFire /\ cycles'[Len(cycles) + 1].pc = "fetching")

\* the initial check ended in the catch block; the task was scheduled all the
\* same and has started the next cycle
C17_Witness ==
  /\ last.emailSent = "threw" /\ last.cycle = 1
  /\ scheduled /\ Len(cycles) >= 2 /\ cycles[2].pc = "fetching"

\* C16: whenever a cycle returns normally - its email accepted, its dispatch
\* failed or refused, or nothing new to dispatch - cleanup has run after the
\* marking: the seen map holds no record older than an hour, and the records
\* the cycle has just written are in it.
C16_CleanupOnEveryReturn ==
  [][\A c \in 1..Len(cycles) :
       (InFlight(c) /\ cycles'[c].pc = "done" /\ last'.emailSent # "threw") =>
         /\ last'.cycle = c
         /\ \A k \in DOMAIN seenPosts' : now - seenPosts'[k] <= MAX_AGE_MS
         /\ \A k \in DOMAIN seenPosts :
              now - seenPosts[k] <= MAX_AGE_MS => k \in DOMAIN seenPosts'
         /\ last'.emailSent = "true" => last'.newIds \subseteq DOMAIN seenPosts']_vars

\* a cycle's dispatch has failed more than an hour after an earlier email
\* went out, and the record of that email's post has been evicted
C16_Witness ==
  /\ last.emailSent = "false" /\ last.dispatches = 1
  /\ Len(sent) >= 1 /\ seenPosts = <<>>
  /\ now > MAX_AGE_MS

\* the decimal integers: an optional sign and digits, nothing else
IsInteger(str) ==
  LET body == IF Len(str) > 0 /\ Head(str) \in {"+", "-"} THEN Tail(str) ELSE str
  IN  Len(body) > 0 /\ \A i \in 1..Len(body) : IsDigit(body[i])

\* the setting is left to its default, or is an integer of at least 1
IsIntegerAtLeastOne(str) ==
  str = <<>> \/ (IsInteger(str) /\ ~LessThanOne(parseInt(str)))

\* C18: the initial check runs (and the task is scheduled) only when the
\* token, both addresses and the source list are present, both addresses
\* have the shape of an email address, the source list names a source, and
\* the polling period and the freshness window are integers of at least 1;
\* otherwise loading the configuration has failed with a message.
C18_InvalidConfigurationAborts ==
  LET env == startup.env
      valid == /\ env.MAILERSEND_API_TOKEN # <<>>
               /\ isValidEmail(env.FROM_EMAIL) /\ isValidEmail(env.TO_EMAIL)
               /\ \E i \in 1..Len(env.SUBREDDITS) : env.SUBREDDITS[i] \notin {" ", ","}
               /\ IsIntegerAtLeastOne(env.CHECK_INTERVAL_MINUTES)
               /\ IsIntegerAtLeastOne(env.POST_AGE_MINUTES)
  IN  /\ startup.phase \in {"loaded", "checked", "scheduled"} => valid
      /\ startup.phase = "aborted" => startup.error # ""

\* C19: for a post without identifier or without publish time isNewPost
\* returns false and logs an error; no such post is in a filtered batch, and
\* the seen map holds only identifiers of well-formed posts.
C19_InvalidPostIsNeverNew ==
  /\ (tracker.op = "isNewPost"
        /\ (tracker.post.id = "" \/ tracker.post.pubDate.kind = "missing"))
       => tracker.result = "false" /\ tracker.logged = "error"
  /\ \A i \in 1..Len(tracker.batch) :
       tracker.batch[i].id # "" /\ tracker.batch[i].pubDate.kind # "missing"
  /\ \A k \in DOMAIN tracker.seen :
       \E i \in 1..Len(TrackerFeed) :
         /\ TrackerFeed[i].id = k /\ k # ""
         /\ TrackerFeed[i].pubDate.kind # "missing"

\* isNewPost has refused a post without identifier whose publish time is
\* inside the window, while the well-formed posts fetched with it are marked
C19_Witness ==
  /\ tracker.op = "isNewPost" /\ tracker.post.id = ""
  /\ isWithinTimeWindow(tracker.post.pubDate, window, tracker.now)
  /\ tracker.result = "false" /\ tracker.logged = "error"
  /\ DOMAIN tracker.seen = {"a1", "a2"}

\* C20: a call of isNewPost leaves the seen map as it was, and a post that
\* evaluated as new evaluates as new again when asked again before anything
\* else happens.
C20_IsNewPostWritesNothing ==
  [][tracker'.op = "isNewPost" =>
       /\ tracker'.seen = tracker.seen
       /\ (tracker.op = "isNewPost" /\ tracker.result = "true"
             /\ tracker'.post = tracker.post) => tracker'.result = "true"
       /\ tracker'.result = "true" =>
            isNewPost(tracker'.post, window, tracker'.seen, tracker'.now)]_vars

\* a post has evaluated as new and is not in the seen map, which holds the
\* other post
C20_Witness ==
  /\ tracker.op = "isNewPost" /\ tracker.result = "true"
  /\ tracker.post.id \notin DOMAIN tracker.seen
  /\ tracker.seen # <<>>

\* the calls among those made whose method is one of the given ones
CallsOf(methods) == SelectSeq(logger.calls, LAMBDA m : m \in methods)

\* C21: the configured level selects what is printed: with debug every call
\* prints, with info the info and error calls, with error the error calls.
C21_LevelSelectsOutput ==
  logger.phase = "ready" =>
    /\ logger.env = LevelDebug => logger.out = logger.calls
    /\ logger.env = LevelInfo => logger.out = CallsOf({LevelInfo, LevelError})
    /\ logger.env = LevelError => logger.out = CallsOf({LevelError})

\* the identifiers some accepted email carried
Notified == UNION {sent[i].ids : i \in 1..Len(sent)}

\* the posts some invocation in flight holds in its batch
Batched == UNION {Ids(cycles[c].newPosts) : c \in {d \in 1..Len(cycles) : InFlight(d)}}

\* C22: when every fetch and dispatch succeeds, annotation is off and the
\* window is at least the polling period, no post a feed lists grows older
\* than the window without having been carried by an accepted email or
\* sitting in the batch of an invocation in flight. (A post older than the
\* window can no longer enter a batch, so such a post is never notified.)
C22_NoPostAgesOutUnnotified ==
  \A s \in DOMAIN feed : \A i \in 1..Len(feed[s]) :
    now - feed[s][i].pubDate.ms > window * MinuteMs
      => feed[s][i].id \in Notified \cup Batched

\* C23: a batch never holds the same identifier twice, whatever the
\* concatenated fetch results it was filtered from.
C23_NoDuplicateInBatch ==
  \A i, j \in 1..Len(tracker.batch) :
    i # j => tracker.batch[i].id # tracker.batch[j].id

====
